---- MODULE Spec2Model ----
(***************************************************************************)
(* Model of packages/artillery/lib/dist.js: divideWork(script, numWorkers) *)
(* splits the phases of a load-test script between worker scripts, using   *)
(* distribute (integer split) and distributeEven (continuous split).       *)
(*                                                                         *)
(* JS objects are functions from the names of the fields that are present  *)
(* to their values; a field that is absent is not in the DOMAIN.  JS       *)
(* arrays are sequences: index i of the source is position i + 1 here.     *)
(* The numbers held by arrivalRate and rampTo may be fractions after       *)
(* distributeEven, so these two fields hold exact rationals                *)
(* [num |-> a, den |-> b] in lowest terms (b >= 1).                        *)
(***************************************************************************)
EXTENDS Integers, Sequences, FiniteSets, TLC

VARIABLES
    pc,             \* position in divideWork / in the distribute harness
    script,         \* the caller's script object (divideWork's first argument)
    given,          \* the script as the caller passed it (snapshot at the call)
    numWorkers,     \* divideWork's second argument
    newPhases,      \* newPhases[i]: worker i's array of phase objects
    phaseSpecIndex, \* index of the phase L.each is about to visit
    newScripts,     \* the scripts built from newPhases (before filtering)
    result,         \* references (indexes into newScripts) of the kept scripts
    branch,         \* branch[p]: the branch of the L.each callback taken for phase p
    log,            \* what console.log printed: the phases reported as unknown
    outcome,        \* "none" | "returned" | "threw"
    argM,           \* distribute harness: first argument
    argN,           \* distribute harness: second argument
    printed         \* distribute harness: the value printed

vars == <<pc, script, given, numWorkers, newPhases, phaseSpecIndex, newScripts,
          result, branch, log, outcome, argM, argN, printed>>

-----------------------------------------------------------------------------
\* Bounds of the model

MaxWorkers == 4
MaxPhases == 2
MaxRate == 3
MaxVusers == 3
MaxCount == 2
MaxM == 12
MaxN == 5

-----------------------------------------------------------------------------
\* JS objects

EmptyObj == [k \in {} |-> 0]

Has(obj, key) == key \in DOMAIN obj

Put(obj, key, val) == (key :> val) @@ obj

Delete(obj, key) == [k \in DOMAIN obj \ {key} |-> obj[k]]

\* JS numbers of the rate fields, as exact rationals

RECURSIVE Gcd(_, _)
Gcd(a, b) == IF b = 0 THEN a ELSE Gcd(b, a % b)

Rat(a, b) == LET g == Gcd(a, b) IN [num |-> a \div g, den |-> b \div g]

FromInt(k) == [num |-> k, den |-> 1]

RatAdd(x, y) == Rat(x.num * y.den + y.num * x.den, x.den * y.den)

\* if (phase.f): the field is present and its value is not 0
TruthyInt(obj, key) == Has(obj, key) /\ obj[key] # 0

TruthyRate(obj, key) == Has(obj, key) /\ obj[key].num # 0

Max(a, b) == IF a >= b THEN a ELSE b

-----------------------------------------------------------------------------
\* dist.js, the numeric primitives

RECURSIVE sum(_)
sum(a) == IF a = <<>> THEN 0 ELSE a[1] + sum(Tail(a))

\* the m < n branch of distribute: for (i = 0; i < n; i++) push(i < m ? 1 : 0)
distributeScarce(m, n) == [j \in 1..n |-> IF j - 1 < m THEN 1 ELSE 0]

\* distributeLoop without the "if (extraItems > 0)" increment
distributeLoopNoExtras(i, n, baseCount, extraItems) == [j \in 1..(n - i) |-> baseCount]

\* the else branch of distribute: the loop body, from index i on
RECURSIVE distributeLoop(_, _, _, _)
distributeLoop(i, n, baseCount, extraItems) ==
    IF i >= n THEN <<>>
    ELSE IF extraItems > 0
         THEN <<baseCount + 1>> \o distributeLoop(i + 1, n, baseCount, extraItems - 1)
         ELSE <<baseCount>> \o distributeLoop(i + 1, n, baseCount, extraItems)

\* distribute(m, n) for integers m >= 0 and any integer n: the array built
\* before the assertion.  For n <= 0 neither loop runs (Math.floor(m / n) and
\* m % n are computed and never used), so the array is empty.
distribute(m, n) ==
    IF m < n THEN distributeScarce(m, n)
    ELSE IF n <= 0 THEN <<>>
    ELSE distributeLoop(0, n, m \div n, m % n)

\* assert(m === sum(result)): TRUE when the assertion passes
distributeAssertion(m, n) == m = sum(distribute(m, n))

\* distributeEven(m, n): n times m / n (m a rational)
distributeEven(m, n) == [j \in 1..n |-> Rat(m.num, m.den * n)]

\* rates.filter(r => r > 0).length, on integers and on rationals
countPositive(a) == Cardinality({j \in 1..Len(a) : a[j] > 0})

countPositiveRates(a) == Cardinality({j \in 1..Len(a) : a[j].num > 0})

-----------------------------------------------------------------------------
\* The scripts divideWork is called with

PhaseNames == <<"warmup", "rampup", "peak", "cooldown">>

Durations == <<60, 30, 10, 20>>

Optional(key, values) == {EmptyObj} \cup {Put(EmptyObj, key, v) : v \in values}

Rates(lo, hi) == {FromInt(k) : k \in lo..hi}

\* phases with a rampTo that is not 0 (arrivalRate absent, 0 or more)
RampingShapes ==
    {a @@ Put(EmptyObj, "rampTo", r) @@ v :
        a \in Optional("arrivalRate", Rates(0, MaxRate)),
        r \in Rates(1, MaxRate),
        v \in Optional("maxVusers", 0..MaxVusers)}

\* phases with an arrivalRate that is not 0 and no rampTo, or a rampTo of 0
ConstantShapes ==
    {Put(EmptyObj, "arrivalRate", a) @@ r @@ v :
        a \in Rates(1, MaxRate),
        r \in Optional("rampTo", Rates(0, 0)),
        v \in Optional("maxVusers", 0..MaxVusers)}

\* phases with an arrivalCount that is not 0
FixedCountShapes ==
    {Put(EmptyObj, "arrivalCount", c) @@ v :
        c \in 1..MaxCount,
        v \in Optional("maxVusers", 0..MaxVusers)}

\* phases whose only load field is present with the value 0 (with or
\* without a maxVusers), and phases with no load field at all
ZeroShapes ==
    {z @@ v :
        z \in {Put(EmptyObj, "arrivalRate", FromInt(0)),
               Put(EmptyObj, "rampTo", FromInt(0)),
               Put(EmptyObj, "arrivalCount", 0)},
        v \in Optional("maxVusers", 0..MaxVusers)}
    \cup {EmptyObj}

\* a pause phase (its length is set from its position)
PauseShape == Put(EmptyObj, "pause", 0)

Shapes ==
    RampingShapes \cup ConstantShapes \cup FixedCountShapes \cup ZeroShapes
        \cup {PauseShape}

\* the shapes a script may use at every position
CommonShapes ==
    {Put(EmptyObj, "arrivalRate", FromInt(2)),
     Put(EmptyObj, "rampTo", FromInt(1)),
     Put(EmptyObj, "arrivalCount", 1),
     PauseShape}

\* the phase at position p: { name, duration, ...shape } or { name, pause }
PhaseAt(p, shape) ==
    IF Has(shape, "pause")
    THEN [name |-> PhaseNames[p], pause |-> Durations[p]]
    ELSE [name |-> PhaseNames[p], duration |-> Durations[p]] @@ shape

\* the phase lists of a length: every phase of a common shape, but for at
\* most one phase (when any), which is of any shape
RECURSIVE PhaseListsOfLen(_, _)
PhaseListsOfLen(len, any) ==
    IF len = 0 THEN {<<>>}
    ELSE {Append(ps, PhaseAt(len, c)) :
            ps \in PhaseListsOfLen(len - 1, any), c \in CommonShapes}
         \cup (IF any
               THEN {Append(ps, PhaseAt(len, c)) :
                        ps \in PhaseListsOfLen(len - 1, FALSE), c \in Shapes}
               ELSE {})

PhaseLists == UNION {PhaseListsOfLen(len, TRUE) : len \in 0..MaxPhases}

Hooks == {EmptyObj, [before |-> "setup flow", after |-> "teardown flow"]}

Scripts ==
    {[config |-> [target |-> "http://sut", phases |-> ps],
      scenarios |-> "flows"] @@ h : ps \in PhaseLists, h \in Hooks}

\* the worker counts tried: the valid ones, and 0 and -1
WorkerCounts == (-1)..MaxWorkers

-----------------------------------------------------------------------------
\* dist.js, divideWork: the helpers of the L.each callback

\* the phase L.each is visiting: an alias of the caller's object
phase == script.config.phases[phaseSpecIndex]

\* line 29: phase.arrivalRate || 0
rampArrivalRate(ph) ==
    IF TruthyRate(ph, "arrivalRate") THEN ph.arrivalRate ELSE FromInt(0)

\* line 33
rampActiveWorkers(rates, ramps) ==
    Max(countPositiveRates(rates), countPositiveRates(ramps))

\* line 47
constantActiveWorkers(rates) == countPositive(rates)

\* pausePhase without its name
pausePhaseUnnamed(ph) == [pause |-> ph.duration]

\* lines 65-68: the phase the workers other than the first get for a
\* fixed-count phase
pausePhase(ph) == [name |-> ph.name, pause |-> ph.duration]

\* replacedWorkers with the replacement loop left out
replacedNone(n) == {}

\* the workers whose fixed-count phase is replaced: for (i = 1; i < n; i++)
replacedWorkers(n) == 2..n

\* worker j's phase for a ramping phase (lines 36-40); maxVusers is the
\* split array, or <<>> with hasMax FALSE when phase.maxVusers is falsy
rampWorkerPhase(old, rate, ramp, hasMax, maxVusers, j) ==
    LET withRates == Put(Put(old, "arrivalRate", rate), "rampTo", ramp)
    IN  IF ~hasMax THEN withRates
        ELSE IF j <= Len(maxVusers) THEN Put(withRates, "maxVusers", maxVusers[j])
        ELSE Delete(withRates, "maxVusers")    \* assigned undefined

\* worker j's phase for a constant-rate phase (lines 50-53)
constantWorkerPhase(old, rate, hasMax, maxVusers, j) ==
    LET withRate == Put(old, "arrivalRate", FromInt(rate))
    IN  IF ~hasMax THEN withRate
        ELSE Put(withRate, "maxVusers",
                 IF j <= Len(maxVusers) THEN maxVusers[j] ELSE 0)

-----------------------------------------------------------------------------
\* @artilleryio/int-core, isIdlePhase: a pause phase, or a rate / ramp /
\* count phase whose load is zero

loadFields == {"arrivalRate", "rampTo", "arrivalCount"}

isIdlePhase(ph) ==
    \/ Has(ph, "pause")
    \/ /\ DOMAIN ph \cap loadFields # {}
       /\ ~TruthyRate(ph, "arrivalRate")
       /\ ~TruthyRate(ph, "rampTo")
       /\ ~TruthyInt(ph, "arrivalCount")

-----------------------------------------------------------------------------
\* dist.js, divideWork: assembling, filtering and annotating

\* L.range(0, numWorkers): numWorkers indexes 0, 1, ...; for a negative
\* numWorkers, -numWorkers indexes 0, -1, ...
rangeLength(n) == IF n >= 0 THEN n ELSE -n

\* lines 90-97: the j-th new script.  newPhases[i] is undefined for an index
\* outside newPhases (then config.phases is left out)
newScript(j) ==
    LET clone == Delete(Delete(script, "before"), "after")
    IN  [clone EXCEPT !.config =
            IF j <= Len(newPhases)
            THEN Put(clone.config, "phases", newPhases[j])
            ELSE Delete(clone.config, "phases")]

\* allIdle with L.some in the place of L.every
someIdle(s) ==
    \/ ~Has(s.config, "phases")
    \/ \E p \in 1..Len(s.config.phases) : isIdlePhase(s.config.phases[p])

\* lines 103-105: L.every(s.config.phases, isIdlePhase); L.every of
\* undefined is true
allIdle(s) ==
    \/ ~Has(s.config, "phases")
    \/ \A p \in 1..Len(s.config.phases) : isIdlePhase(s.config.phases[p])

\* keptScripts without the filter
keptAll(scripts) == [j \in 1..Len(scripts) |-> j]

\* lines 101-109: the indexes of the scripts that are kept, in order
keptScripts(scripts) ==
    SelectSeq([j \in 1..Len(scripts) |-> j], LAMBDA j : ~allIdle(scripts[j]))

\* lines 113-116: the phases of the k-th kept script, annotated
annotatePhase(ph, k, total) == Put(Put(ph, "totalWorkers", total), "worker", k)

annotateScript(s, k, total) ==
    [s EXCEPT !.config.phases =
        [p \in 1..Len(s.config.phases) |-> annotatePhase(s.config.phases[p], k, total)]]

-----------------------------------------------------------------------------
\* divideWork(script, numWorkers), step by step

Init ==
    /\ pc = "call"
    /\ script \in Scripts
    /\ given = script
    /\ numWorkers \in WorkerCounts
    /\ newPhases = <<>>
    /\ phaseSpecIndex = 1
    /\ newScripts = <<>>
    /\ result = <<>>
    /\ branch = <<>>
    /\ log = <<>>
    /\ outcome = "none"
    /\ argM = 0
    /\ argN = 1
    /\ printed = <<>>

harness == <<argM, argN, printed>>

\* lines 17-20: one deep copy of the phases per worker
ClonePhases ==
    /\ pc = "call"
    /\ newPhases' = [i \in 1..numWorkers |-> script.config.phases]
    /\ pc' = "each"
    /\ UNCHANGED <<script, given, numWorkers, phaseSpecIndex, newScripts, result,
                   branch, log, outcome, harness>>

visiting == pc = "each" /\ phaseSpecIndex <= Len(script.config.phases)

\* what every branch of the callback does on its way out
nextPhase(name) ==
    /\ branch' = Append(branch, name)
    /\ phaseSpecIndex' = phaseSpecIndex + 1
    /\ pc' = "each"
    /\ outcome' = outcome

\* an exception leaves divideWork
throw(name) ==
    /\ branch' = Append(branch, name)
    /\ phaseSpecIndex' = phaseSpecIndex
    /\ pc' = "done"
    /\ outcome' = "threw"

\* lines 26-43
AdjustRampingRate ==
    /\ visiting
    /\ TruthyRate(phase, "rampTo")
    /\ LET arrivalRate == rampArrivalRate(phase)
           rates == distributeEven(arrivalRate, numWorkers)
           ramps == distributeEven(phase.rampTo, numWorkers)
           activeWorkers == rampActiveWorkers(rates, ramps)
           hasMax == TruthyInt(phase, "maxVusers")
           maxVusers == IF hasMax THEN distribute(phase.maxVusers, activeWorkers)
                        ELSE <<>>
       IN  /\ script' = [script EXCEPT !.config.phases[phaseSpecIndex] =
                            Put(phase, "arrivalRate", arrivalRate)]
           /\ IF hasMax /\ ~distributeAssertion(phase.maxVusers, activeWorkers)
              THEN /\ throw("RampingRate")
                   /\ UNCHANGED newPhases
              ELSE /\ nextPhase("RampingRate")
                   /\ newPhases' =
                        [i \in 1..Len(newPhases) |->
                            [newPhases[i] EXCEPT ![phaseSpecIndex] =
                                rampWorkerPhase(@, rates[i], ramps[i], hasMax,
                                                maxVusers, i)]]
    /\ UNCHANGED <<given, numWorkers, newScripts, result, log, harness>>

\* lines 45-56
AdjustConstantRate ==
    /\ visiting
    /\ ~TruthyRate(phase, "rampTo")
    /\ TruthyRate(phase, "arrivalRate")
    /\ LET rates == distribute(phase.arrivalRate.num, numWorkers)
           activeWorkers == constantActiveWorkers(rates)
           hasMax == TruthyInt(phase, "maxVusers")
           maxVusers == IF hasMax THEN distribute(phase.maxVusers, activeWorkers)
                        ELSE <<>>
       IN  IF \/ ~distributeAssertion(phase.arrivalRate.num, numWorkers)
              \/ hasMax /\ ~distributeAssertion(phase.maxVusers, activeWorkers)
           THEN /\ throw("ConstantRate")
                /\ UNCHANGED newPhases
           ELSE /\ nextPhase("ConstantRate")
                /\ newPhases' =
                     [i \in 1..Len(newPhases) |->
                         [newPhases[i] EXCEPT ![phaseSpecIndex] =
                             constantWorkerPhase(@, rates[i], hasMax, maxVusers, i)]]
    /\ UNCHANGED <<script, given, numWorkers, newScripts, result, log, harness>>

\* lines 58-72
AdjustFixedCount ==
    /\ visiting
    /\ ~TruthyRate(phase, "rampTo")
    /\ ~TruthyRate(phase, "arrivalRate")
    /\ TruthyInt(phase, "arrivalCount")
    /\ IF TruthyInt(phase, "maxVusers") /\ Len(newPhases) = 0
       THEN \* newPhases[0] is undefined: TypeError
            /\ throw("FixedCount")
            /\ UNCHANGED newPhases
       ELSE /\ nextPhase("FixedCount")
            /\ newPhases' =
                 [i \in 1..Len(newPhases) |->
                     [newPhases[i] EXCEPT ![phaseSpecIndex] =
                         IF i \in replacedWorkers(numWorkers) THEN pausePhase(phase)
                         ELSE IF TruthyInt(phase, "maxVusers")
                              THEN Put(@, "maxVusers", phase.maxVusers)
                              ELSE @]]
    /\ UNCHANGED <<script, given, numWorkers, newScripts, result, log, harness>>

\* lines 74-77
AdjustPause ==
    /\ visiting
    /\ ~TruthyRate(phase, "rampTo")
    /\ ~TruthyRate(phase, "arrivalRate")
    /\ ~TruthyInt(phase, "arrivalCount")
    /\ TruthyInt(phase, "pause")
    /\ nextPhase("Pause")
    /\ UNCHANGED <<script, given, numWorkers, newPhases, newScripts, result, log,
                   harness>>

\* lines 79-83
ReportUnknown ==
    /\ visiting
    /\ ~TruthyRate(phase, "rampTo")
    /\ ~TruthyRate(phase, "arrivalRate")
    /\ ~TruthyInt(phase, "arrivalCount")
    /\ ~TruthyInt(phase, "pause")
    /\ log' = Append(log, phase)
    /\ nextPhase("Unknown")
    /\ UNCHANGED <<script, given, numWorkers, newPhases, newScripts, result, harness>>

\* lines 89-98
CreateScripts ==
    /\ pc = "each"
    /\ phaseSpecIndex > Len(script.config.phases)
    /\ newScripts' = [j \in 1..rangeLength(numWorkers) |-> newScript(j)]
    /\ pc' = "filter"
    /\ UNCHANGED <<script, given, numWorkers, newPhases, phaseSpecIndex, result,
                   branch, log, outcome, harness>>

\* lines 100-109
FilterIdle ==
    /\ pc = "filter"
    /\ result' = keptScripts(newScripts)
    /\ pc' = "annotate"
    /\ UNCHANGED <<script, given, numWorkers, newPhases, phaseSpecIndex, newScripts,
                   branch, log, outcome, harness>>

\* lines 111-120: result holds references, so the annotation is seen
\* through newScripts
Annotate ==
    /\ pc = "annotate"
    /\ newScripts' =
         [j \in 1..Len(newScripts) |->
            IF \E k \in 1..Len(result) : result[k] = j
            THEN annotateScript(newScripts[j],
                                CHOOSE k \in 1..Len(result) : result[k] = j,
                                Len(result))
            ELSE newScripts[j]]
    /\ pc' = "done"
    /\ outcome' = "returned"
    /\ UNCHANGED <<script, given, numWorkers, newPhases, phaseSpecIndex, result,
                   branch, log, harness>>

Next ==
    \/ ClonePhases
    \/ AdjustRampingRate
    \/ AdjustConstantRate
    \/ AdjustFixedCount
    \/ AdjustPause
    \/ ReportUnknown
    \/ CreateScripts
    \/ FilterIdle
    \/ Annotate

Spec == Init /\ [][Next]_vars

\* what divideWork returned: the kept scripts, in order
returned == [k \in 1..Len(result) |-> newScripts[result[k]]]

-----------------------------------------------------------------------------
\* The self-test at the end of dist.js: console.log(distribute(m, n))

InitDistribute ==
    /\ pc = "main"
    /\ argM \in 0..MaxM
    /\ argN \in 1..MaxN
    /\ printed = <<>>
    /\ script = EmptyObj
    /\ given = EmptyObj
    /\ numWorkers = 0
    /\ newPhases = <<>>
    /\ phaseSpecIndex = 1
    /\ newScripts = <<>>
    /\ result = <<>>
    /\ branch = <<>>
    /\ log = <<>>
    /\ outcome = "none"

PrintDistribute ==
    /\ pc = "main"
    /\ IF distributeAssertion(argM, argN)
       THEN /\ printed' = distribute(argM, argN)
            /\ pc' = "printed"
            /\ outcome' = "returned"
       ELSE /\ printed' = printed
            /\ pc' = "done"
            /\ outcome' = "threw"
    /\ UNCHANGED <<script, given, numWorkers, newPhases, phaseSpecIndex, newScripts,
                   result, branch, log, argM, argN>>

SpecDistribute == InitDistribute /\ [][PrintDistribute]_vars

-----------------------------------------------------------------------------
\* Properties

\* the phases of the script the caller passed
givenPhases == given.config.phases

\* worker j's phase at position p, among all the scripts built
workerPhase(j, p) == newScripts[j].config.phases[p]

rateOf(ph, key) == IF Has(ph, key) THEN ph[key] ELSE FromInt(0)

intOf(ph, key) == IF Has(ph, key) THEN ph[key] ELSE 0

RECURSIVE intTotal(_)
intTotal(a) == IF Len(a) = 0 THEN 0 ELSE a[Len(a)] + intTotal(SubSeq(a, 1, Len(a) - 1))

RECURSIVE rateTotal(_)
rateTotal(a) ==
    IF Len(a) = 0 THEN FromInt(0)
    ELSE RatAdd(a[Len(a)], rateTotal(SubSeq(a, 1, Len(a) - 1)))

\* the share of worker j (1-based) when m is split evenly between n workers
evenShare(m, n, j) ==
    IF m < n THEN (IF j <= m THEN 1 ELSE 0)
    ELSE (m \div n) + (IF j <= m % n THEN 1 ELSE 0)

completed == pc = "done" /\ outcome = "returned" /\ numWorkers >= 1

\* C1: for m >= 0 and n >= 1, distribute(m, n) passes its assertion and
\* returns n non-negative integers that sum to m: the first m are 1 and the
\* rest 0 when m < n, otherwise the first m mod n are floor(m / n) + 1 and
\* the rest floor(m / n).
DistributeLayout ==
    pc # "main" =>
        /\ outcome = "returned"
        /\ Len(printed) = argN
        /\ intTotal(printed) = argM
        /\ \A j \in 1..argN : printed[j] >= 0 /\ printed[j] = evenShare(argM, argN, j)

DistributeLayoutWitness ==
    pc = "printed" /\ argM = 7 /\ argN = 3 /\ printed = <<3, 2, 2>>

\* C2: the load of every phase, summed over the worker scripts divideWork
\* returns, is the load of the original phase: arrivalRate and rampTo (where
\* the division is exact) and arrivalCount.
returnedRates(p, key) ==
    [k \in 1..Len(result) |-> rateOf(returned[k].config.phases[p], key)]

exactSplit(p, key) ==
    \A j \in 1..Len(newScripts) : rateOf(workerPhase(j, p), key).den = 1

InputUnchanged == (pc = "done" /\ numWorkers >= 1) => script = given

\* C4: a worker count of 0 or less makes divideWork fail, whatever the phases.
InvalidWorkerCountFails == (pc = "done" /\ numWorkers <= 0) => outcome = "threw"

\* C5: the rule applied to a phase is decided by the fields that are present,
\* in the order rampTo, arrivalRate, arrivalCount, pause; only a phase with
\* none of them is reported as unknown.
kindByPresence(ph) ==
    IF Has(ph, "rampTo") THEN "RampingRate"
    ELSE IF Has(ph, "arrivalRate") THEN "ConstantRate"
    ELSE IF Has(ph, "arrivalCount") THEN "FixedCount"
    ELSE IF Has(ph, "pause") THEN "Pause"
    ELSE "Unknown"

DispatchByPresence ==
    numWorkers >= 1 =>
        /\ \A p \in 1..Len(branch) : branch[p] = kindByPresence(givenPhases[p])
        /\ \A i \in 1..Len(log) : kindByPresence(log[i]) = "Unknown"

\* C6: divideWork returns, in order, exactly the worker scripts that have a
\* phase that is not idle, and every phase of the k-th one carries worker = k
\* and totalWorkers = the number returned; a single constant-rate phase of
\* rate 2 split between 4 workers gives 2 scripts.
hasLoad(s) ==
    /\ Has(s.config, "phases")
    /\ \E p \in 1..Len(s.config.phases) : ~isIdlePhase(s.config.phases[p])

rateTwoAlone ==
    /\ Len(givenPhases) = 1
    /\ DOMAIN givenPhases[1] = {"name", "duration", "arrivalRate"}
    /\ givenPhases[1].arrivalRate = FromInt(2)

SurvivorsAnnotated ==
    completed =>
        /\ Len(newScripts) = numWorkers
        /\ \A k \in 1..Len(result) : result[k] \in 1..numWorkers
        /\ \A k \in 1..(Len(result) - 1) : result[k] < result[k + 1]
        /\ \A j \in 1..numWorkers :
              (\E k \in 1..Len(result) : result[k] = j) <=> hasLoad(newScripts[j])
        /\ \A k \in 1..Len(result) :
              \A p \in 1..Len(returned[k].config.phases) :
                 LET ph == returned[k].config.phases[p]
                 IN  /\ Has(ph, "worker") /\ ph.worker = k
                     /\ Has(ph, "totalWorkers") /\ ph.totalWorkers = Len(result)
        /\ (rateTwoAlone /\ numWorkers = 4) => Len(result) = 2

SurvivorsAnnotatedWitness ==
    /\ completed
    /\ rateTwoAlone
    /\ numWorkers = 4
    /\ result = <<1, 2>>
    /\ returned[2].config.phases[1].worker = 2
    /\ returned[2].config.phases[1].totalWorkers = 2

\* C7: with n >= 1 workers and a phase that can generate load (an arrivalRate
\* of 1 or more, a rampTo above 0 or an arrivalCount of 1 or more), divideWork
\* returns at least one worker script and at most n.
canGenerateLoad(ph) ==
    \/ TruthyRate(ph, "arrivalRate")
    \/ TruthyRate(ph, "rampTo")
    \/ TruthyInt(ph, "arrivalCount")

isFixedCount(ph) ==
    Has(ph, "arrivalCount") /\ ~Has(ph, "arrivalRate") /\ ~Has(ph, "rampTo")

fixedCountIsolated(p) ==
    LET ph == givenPhases[p]
        first == workerPhase(1, p)
    IN  /\ Has(first, "arrivalCount") /\ first.arrivalCount = ph.arrivalCount
        /\ Has(ph, "maxVusers") =>
              Has(first, "maxVusers") /\ first.maxVusers = ph.maxVusers
        /\ first.name = ph.name /\ first.duration = ph.duration
        /\ \A j \in 2..numWorkers :
              LET other == workerPhase(j, p)
              IN  /\ Has(other, "pause") /\ other.pause = ph.duration
                  /\ other.name = ph.name
                  /\ ~Has(other, "arrivalCount")

FixedCountIsolation ==
    completed => \A p \in 1..Len(givenPhases) :
                isFixedCount(givenPhases[p]) => fixedCountIsolated(p)

\* the same, for the fixed-count phases whose arrivalCount is not 0
FixedCountIsolationNonZero ==
    completed => \A p \in 1..Len(givenPhases) :
                (isFixedCount(givenPhases[p]) /\ givenPhases[p].arrivalCount # 0)
                    => fixedCountIsolated(p)

\* C9: the maxVusers of a rate phase is split evenly between the active
\* workers (those with a rate above 0; for a ramp, the larger of the counts
\* for arrivalRate and rampTo), the others get 0; the caps sum to the
\* original maxVusers and no worker with a zero rate has a cap above 0.
isRatePhase(ph) == Has(ph, "arrivalRate") \/ Has(ph, "rampTo")

positiveWorkers(p, key) ==
    Cardinality({j \in 1..numWorkers : rateOf(workerPhase(j, p), key).num > 0})

capsSplit(p) ==
    LET maxVusers == givenPhases[p].maxVusers
        activeWorkers ==
            Max(positiveWorkers(p, "arrivalRate"), positiveWorkers(p, "rampTo"))
        caps == [j \in 1..numWorkers |-> intOf(workerPhase(j, p), "maxVusers")]
    IN  /\ \A j \in 1..numWorkers :
              /\ Has(workerPhase(j, p), "maxVusers")
              /\ caps[j] = IF j <= activeWorkers
                           THEN evenShare(maxVusers, activeWorkers, j)
                           ELSE 0
              /\ (rateOf(workerPhase(j, p), "arrivalRate").num = 0
                    /\ rateOf(workerPhase(j, p), "rampTo").num = 0) => caps[j] = 0
        /\ intTotal(caps) = maxVusers

MaxVusersSplit ==
    completed => \A p \in 1..Len(givenPhases) :
                (isRatePhase(givenPhases[p]) /\ Has(givenPhases[p], "maxVusers"))
                    => capsSplit(p)

\* the same, for the rate phases with a rate that is not 0
MaxVusersSplitNonZero ==
    completed => \A p \in 1..Len(givenPhases) :
                (canGenerateLoad(givenPhases[p]) /\ isRatePhase(givenPhases[p])
                    /\ Has(givenPhases[p], "maxVusers")) => capsSplit(p)

\* C10: every worker script returned has as many phases as the original, and
\* its phase at each position has the name of the original phase there.
PhasesAligned ==
    completed =>
        \A k \in 1..Len(returned) :
            /\ Len(returned[k].config.phases) = Len(givenPhases)
            /\ \A p \in 1..Len(givenPhases) :
                  LET ph == returned[k].config.phases[p]
                  IN  Has(ph, "name") /\ ph.name = givenPhases[p].name

\* a fixed-count phase and a constant-rate phase, three workers, all kept:
\* the second worker has a pause and a rate phase
PhasesAlignedWitness ==
    /\ completed
    /\ numWorkers = 3
    /\ Len(returned) = 3
    /\ Len(givenPhases) = 2
    /\ isFixedCount(givenPhases[1])
    /\ TruthyRate(givenPhases[2], "arrivalRate")
    /\ Has(returned[2].config.phases[1], "pause")
    /\ returned[2].config.phases[2].name = "rampup"

-----------------------------------------------------------------------------
\* Cases looked at one by one: each is the negation of a state, which TLC
\* reaches

\* a pause phase alone and 0 workers: divideWork returns []
PauseAloneNoWorkers ==
    ~(/\ pc = "done" /\ numWorkers = 0 /\ outcome = "returned" /\ returned = <<>>
      /\ Len(givenPhases) = 1 /\ Has(givenPhases[1], "pause"))

\* { arrivalCount: 0 } then { arrivalRate: 2 }, 2 workers: both are returned,
\* and the second has the arrivalCount: 0 phase, not a pause
ZeroCountSecondWorker ==
    ~(/\ completed /\ numWorkers = 2 /\ Len(returned) = 2
      /\ Len(givenPhases) = 2
      /\ DOMAIN givenPhases[1] = {"name", "duration", "arrivalCount"}
      /\ givenPhases[1].arrivalCount = 0
      /\ DOMAIN returned[2].config.phases[1]
            = {"name", "duration", "arrivalCount", "worker", "totalWorkers"})

\* { arrivalRate: 0, maxVusers: 3 } then { arrivalRate: 2 }, 2 workers: both
\* are returned with a maxVusers of 3 on the phase of rate 0
ZeroRateKeepsCap ==
    ~(/\ completed /\ numWorkers = 2 /\ Len(returned) = 2
      /\ Len(givenPhases) = 2
      /\ DOMAIN givenPhases[1] = {"name", "duration", "arrivalRate", "maxVusers"}
      /\ givenPhases[1].arrivalRate = FromInt(0)
      /\ givenPhases[1].maxVusers = 3
      /\ returned[1].config.phases[1].maxVusers = 3
      /\ returned[2].config.phases[1].maxVusers = 3
      /\ returned[2].config.phases[1].arrivalRate = FromInt(0))

====
